---- MODULE Spec2Model ----
(***************************************************************************)
(* Model of popup.js: the Tab Locator (getCurrentTabUrl), the Similarity   *)
(* Client (fetchSimilarSites), the Result Presenter (displaySimilarSites)  *)
(* and the activation flow (main).                                         *)
(*                                                                         *)
(* JavaScript values are records [t |-> type, v |-> payload].  A string's  *)
(* payload is its sequence of characters, an array's payload the sequence  *)
(* of its elements, an object's payload the function from its own property *)
(* names to their values.  The text of a content part is a string that is  *)
(* known by what JSON.parse makes of it (a value or a SyntaxError).        *)
(***************************************************************************)
EXTENDS Integers, Sequences, FiniteSets, TLC

\* Largest number of entries in a similarWebsites array of the response.
MaxLen == 2
\* Largest number of URLs handed to one direct render call.
MaxSites == 4

---------------------------------------------------------------------------
\* JavaScript values

Undefined == [t |-> "undefined", v |-> <<>>]
Null == [t |-> "null", v |-> <<>>]
\* a non-zero number
Num == [t |-> "number", v |-> <<>>]
Str(chars) == [t |-> "string", v |-> chars]
Arr(elems) == [t |-> "array", v |-> elems]
Obj(fields) == [t |-> "object", v |-> fields]
EmptyObj == [t |-> "object", v |-> <<>>]
\* a non-empty string whose JSON.parse outcome is `parsed`
JsonText(parsed) == [t |-> "text", v |-> <<parsed>>]
SyntaxError == [t |-> "SyntaxError", v |-> <<>>]

\* ToBoolean
Truthy(x) ==
    /\ x.t \notin {"undefined", "null"}
    /\ ~(x.t = "string" /\ x.v = <<>>)

Nullish(x) == x.t \in {"undefined", "null"}

\* x[name] for a value x that is neither null nor undefined
Get(x, name) ==
    IF x.t = "object" /\ name \in DOMAIN x.v THEN x.v[name] ELSE Undefined

\* x.length > 0
LengthPositive(x) ==
    /\ x.t \in {"array", "string"}
    /\ Len(x.v) > 0

\* x[0]
First(x) ==
    IF x.t = "array" /\ Len(x.v) > 0 THEN x.v[1]
    ELSE IF x.t = "string" /\ Len(x.v) > 0 THEN Str(<<x.v[1]>>)
    ELSE Undefined

\* String.prototype.startsWith
startsWith(s, prefix) ==
    /\ Len(s) >= Len(prefix)
    /\ SubSeq(s, 1, Len(prefix)) = prefix

IsWhiteSpace(c) == c \in {" ", "\t", "\n"}

RECURSIVE trimStart(_)
trimStart(s) ==
    IF s # <<>> /\ IsWhiteSpace(Head(s)) THEN trimStart(Tail(s)) ELSE s

RECURSIVE trimEnd(_)
trimEnd(s) ==
    IF s # <<>> /\ IsWhiteSpace(s[Len(s)]) THEN trimEnd(SubSeq(s, 1, Len(s) - 1)) ELSE s

\* String.prototype.trim
trim(s) == trimEnd(trimStart(s))

\* JSON.parse of a content part's text
JSONparse(text) ==
    IF text.t = "text" THEN text.v[1] ELSE SyntaxError

HTTP == <<"h", "t", "t", "p", ":", "/", "/">>
HTTPS == <<"h", "t", "t", "p", "s", ":", "/", "/">>

---------------------------------------------------------------------------
\* Inputs: what the host and the remote service can hand to the program

Site1 == Str(HTTPS \o <<"s", "1">>)
Site2 == Str(HTTP \o <<"s", "2">>)
\* the placeholder of getCurrentTabUrl
ExampleCom == Str(HTTPS \o <<"e", "x", "a", "m", "p", "l", "e", ".", "c", "o", "m">>)

Tab(url) == Obj([url |-> url])

\* what chrome.tabs.query hands to its callback
TabsResults ==
    { Undefined,
      Arr(<<>>),
      Arr(<<EmptyObj>>),
      Arr(<<Tab(Str(<<>>))>>),
      Arr(<<Tab(Site1)>>),
      Arr(<<Tab(Site2)>>),
      Arr(<<Tab(Site1), Tab(Site2)>>),
      Arr(<<EmptyObj, Tab(Site1)>>) }

\* the global `chrome`: not declared at all, declared without the tabs API,
\* or the extension's
TabEnvs ==
    { [chrome |-> "undeclared", tabs |-> Undefined],
      [chrome |-> "noTabs", tabs |-> Undefined] }
    \cup { [chrome |-> "extension", tabs |-> r] : r \in TabsResults }

\* entries the service may put in similarWebsites
EntryPool ==
    { Str(HTTPS \o <<"a">>),
      Str(HTTP \o <<"b">>),
      Str(<<"f", "t", "p", ":", "/", "/", "x">>),
      Str(<<" ">> \o HTTPS \o <<"c">>),
      Str(<<" ", " ">>),
      Num }

SeqsUpTo(S, n) == UNION { [1..k -> S] : k \in 0..n }

\* what the inner text may decode to
InnerValues ==
    { Null, Num, Str(<<"o", "k">>), EmptyObj, Arr(<<Str(HTTPS \o <<"a">>)>>),
      Obj([similarWebsites |-> Null]),
      Obj([similarWebsites |-> Str(HTTPS \o <<"a">>)]),
      Obj([similarWebsites |-> Obj([length |-> Num])]) }
    \cup { Obj([similarWebsites |-> Arr(a)]) : a \in SeqsUpTo(EntryPool, MaxLen) }

Texts == { JsonText(SyntaxError) } \cup { JsonText(x) : x \in InnerValues }

\* texts tried in a candidate or part other than the first
LaterTexts ==
    { JsonText(SyntaxError),
      JsonText(Obj([similarWebsites |-> Arr(<<Str(HTTPS \o <<"a">>)>>)])),
      JsonText(Obj([similarWebsites |->
          Arr(<<Str(<<"f", "t", "p", ":", "/", "/", "x">>), Str(HTTP \o <<"b">>)>>)])) }

Part(text) == Obj([text |-> text])
Candidate(parts) == Obj([content |-> Obj([parts |-> Arr(parts)])])
Envelope(cands) == Obj([candidates |-> Arr(cands)])

\* success bodies that decode as JSON
Envelopes ==
    { Null, Num, EmptyObj,
      Obj([candidates |-> Null]),
      Obj([candidates |-> Str(<<"n", "o">>)]),
      Envelope(<<>>),
      Envelope(<<Null>>),
      Envelope(<<EmptyObj>>),
      Envelope(<<Obj([content |-> Null])>>),
      Envelope(<<Obj([content |-> EmptyObj])>>),
      Envelope(<<Candidate(<<>>)>>),
      Envelope(<<Candidate(<<Null>>)>>),
      Envelope(<<Candidate(<<EmptyObj>>)>>),
      Envelope(<<Candidate(<<Part(Str(<<>>))>>)>>) }
    \cup { Envelope(<<Candidate(<<Part(x)>>)>>) : x \in Texts }
    \cup { Envelope(<<Candidate(<<Part(x)>>), Candidate(<<Part(y)>>)>>) :
             x \in LaterTexts, y \in LaterTexts }
    \cup { Envelope(<<EmptyObj, Candidate(<<Part(x)>>)>>) : x \in LaterTexts }
    \cup { Envelope(<<Candidate(<<EmptyObj, Part(x)>>)>>) : x \in LaterTexts }
    \cup { Envelope(<<Candidate(<<Part(Str(<<>>)), Part(x)>>)>>) : x \in LaterTexts }

\* a response body: text that is not JSON, text that is JSON, or a stream
\* whose read fails
JsonBody(x) == [kind |-> "json", raw |-> "<json>", value |-> x]
ProseBody(raw) == [kind |-> "prose", raw |-> raw, value |-> Undefined]
BrokenBody == [kind |-> "unreadable", raw |-> "", value |-> Undefined]
NoBody == [kind |-> "none", raw |-> "", value |-> Undefined]

GoodEnvelope == Envelope(<<Candidate(<<Part(JsonText(
                   Obj([similarWebsites |-> Arr(<<Str(HTTPS \o <<"a">>)>>)])))>>)>>)

ErrorBodies ==
    { ProseBody("Internal error"), ProseBody(""), BrokenBody, JsonBody(GoodEnvelope) }

SuccessBodies ==
    { ProseBody("<html>"), ProseBody(""), BrokenBody }
    \cup { JsonBody(x) : x \in Envelopes }

Response(status, body) == [k |-> "response", status |-> status, body |-> body]
Rejected == [k |-> "reject", status |-> 0, body |-> NoBody]

\* every outcome of the one network call
NetOutcomes ==
    { Rejected }
    \cup { Response(s, b) : s \in {404, 500}, b \in ErrorBodies }
    \cup { Response(200, b) : b \in SuccessBodies }

\* Response.ok
ok(response) == response.status \in 200..299

---------------------------------------------------------------------------
\* Messages and errors

Message(text) == [text |-> text, error |-> <<>>]
\* `Error: ${error.message}`
ErrorMessage(error) == [text |-> "Error: ", error |-> <<error>>]

NoSimilarSites == Message("No similar sites found or API error.")
FetchingUrl == Message("Fetching current URL...")
FindingSites == Message("Finding similar sites...")
FailedToLoad == Message("Failed to load suggestions. See console for details.")
CouldNotDetermine ==
    Message("Could not determine the current site URL. Ensure you are on a valid webpage.")

Error(name, message, status, details) ==
    [name |-> name, message |-> message, status |-> status, details |-> details]

\* new Error(`API request failed with status ${response.status}. Details: ${errorBody}`)
ApiError(status, errorBody) ==
    Error("Error", "API request failed with status", status, errorBody)
NetworkError == Error("TypeError", "Failed to fetch", 0, "")
BodyReadError == Error("TypeError", "body stream error", 0, "")
BodySyntaxError == Error("SyntaxError", "Unexpected token", 0, "")
PropertyTypeError == Error("TypeError", "Cannot read properties", 0, "")


---------------------------------------------------------------------------
\* fetchSimilarSites: the pure parts

\* What one stretch of fetchSimilarSites ends with: whether the promise is
\* rejected, the value it resolves with, the message it sets (none or one),
\* what it logs and which decoding operations it carried out.
Outcome(value, setMessage, log, ops) ==
    [rejected |-> FALSE, value |-> value, setMessage |-> setMessage,
     log |-> log, ops |-> ops]

\* the outer catch: log, set the message, return []
catchError_rethrow(error, log, ops) ==
    [rejected |-> TRUE, value |-> <<>>, setMessage |-> <<ErrorMessage(error)>>,
     log |-> log \o <<"error: Error fetching similar sites">>, ops |-> ops]

catchError(error, log, ops) ==
    Outcome(<<>>, <<ErrorMessage(error)>>,
            log \o <<"error: Error fetching similar sites">>, ops)

\* the guard on the argument: true when the call returns [] at once
skipsRequest_undefinedOnly(siteUrl) == siteUrl.t = "undefined"

skipsRequest(siteUrl) == ~Truthy(siteUrl)

\* the branch on response.ok: which body read comes next
bodyRead_ignoreStatus(response) == "awaitJson"

bodyRead(response) == IF ~ok(response) THEN "awaitText" ELSE "awaitJson"

\* the filter's predicate
isValidUrl_httpsOnly(url) ==
    /\ url.t = "string"
    /\ trim(url.v) # <<>>
    /\ startsWith(url.v, HTTPS)

isValidUrl(url) ==
    /\ url.t = "string"
    /\ trim(url.v) # <<>>
    /\ (startsWith(url.v, HTTP) \/ startsWith(url.v, HTTPS))

NoText == [k |-> "nodata", text |-> Undefined]
Throws == [k |-> "TypeError", text |-> Undefined]

\* the envelope check: the text of the first candidate's first part, the
\* else branch, or the TypeError of a property read on null or undefined
candidateText_noPartsLength(result) ==
    IF Nullish(result) THEN Throws
    ELSE LET candidates == Get(result, "candidates") IN
    IF ~(Truthy(candidates) /\ LengthPositive(candidates)) THEN NoText
    ELSE LET c0 == First(candidates) IN
    IF Nullish(c0) THEN Throws
    ELSE LET content == Get(c0, "content") IN
    IF ~Truthy(content) THEN NoText
    ELSE LET parts == Get(content, "parts") IN
    IF ~Truthy(parts) THEN NoText
    ELSE LET p0 == First(parts) IN
    IF Nullish(p0) THEN Throws
    ELSE LET text == Get(p0, "text") IN
    IF Truthy(text) THEN [k |-> "text", text |-> text] ELSE NoText

candidateText(result) ==
    IF Nullish(result) THEN Throws
    ELSE LET candidates == Get(result, "candidates") IN
    IF ~(Truthy(candidates) /\ LengthPositive(candidates)) THEN NoText
    ELSE LET c0 == First(candidates) IN
    IF Nullish(c0) THEN Throws
    ELSE LET content == Get(c0, "content") IN
    IF ~Truthy(content) THEN NoText
    ELSE LET parts == Get(content, "parts") IN
    IF ~(Truthy(parts) /\ LengthPositive(parts)) THEN NoText
    ELSE LET p0 == First(parts) IN
    IF Nullish(p0) THEN Throws
    ELSE LET text == Get(p0, "text") IN
    IF Truthy(text) THEN [k |-> "text", text |-> text] ELSE NoText

\* the inner try: parse the text, check the shape, filter the entries
parseSites(jsonText, ops) ==
    LET parsedJson == JSONparse(jsonText)
        done == ops \cup {"parse"}
    IN  IF parsedJson.t = "SyntaxError"
        THEN Outcome(<<>>, <<>>, <<"error: Failed to parse JSON from API response">>, done)
        ELSE IF /\ Truthy(parsedJson)
                /\ Truthy(Get(parsedJson, "similarWebsites"))
                /\ Get(parsedJson, "similarWebsites").t = "array"
        THEN Outcome(SelectSeq(Get(parsedJson, "similarWebsites").v, isValidUrl),
                     <<>>, <<>>, done)
        ELSE Outcome(<<>>, <<>>, <<"warn: Parsed JSON does not have the expected structure">>,
                     done)

\* from the decoded body to the return
afterJson(result, ops) ==
    LET c == candidateText(result)
    IN  CASE c.k = "TypeError" -> catchError(PropertyTypeError, <<>>, ops)
          [] c.k = "nodata" ->
                Outcome(<<>>, <<>>, <<"warn: No valid candidates or content parts">>, ops)
          [] c.k = "text" -> parseSites(c.text, ops)

\* response.text() settled on the failure branch
afterText(response, ops) ==
    IF response.body.kind = "unreadable"
    THEN catchError(BodyReadError, <<>>, ops)
    ELSE catchError(ApiError(response.status, response.body.raw),
                    <<"error: API request failed">>, ops \cup {"text"})

\* response.json() settled on the success branch
afterBody(response, ops) ==
    CASE response.body.kind = "unreadable" -> catchError(BodyReadError, <<>>, ops)
      [] response.body.kind = "prose" -> catchError(BodySyntaxError, <<>>, ops \cup {"json"})
      [] response.body.kind = "json" -> afterJson(response.body.value, ops \cup {"json"})

---------------------------------------------------------------------------
\* getCurrentTabUrl and displaySimilarSites: the pure parts

Promise(state, value) == [state |-> state, value |-> value]
NoPromise == Promise("none", Undefined)

\* the promise executor, up to the call of chrome.tabs.query
getCurrentTabUrl(chrome) ==
    CASE chrome = "undeclared" -> Promise("rejected", Undefined)
      [] chrome = "noTabs" -> Promise("resolved", ExampleCom)
      [] chrome = "extension" -> Promise("pending", Undefined)

\* the callback of chrome.tabs.query
tabsCallback(tabs) ==
    IF /\ Truthy(tabs)
       /\ LengthPositive(tabs)
       /\ Truthy(Get(First(tabs), "url"))
    THEN Promise("resolved", Get(First(tabs), "url"))
    ELSE Promise("resolved", Null)

\* one rendered list item: the li and its link
ListItem(site) ==
    [href |-> site, textContent |-> site, target |-> "_blank", title |-> site]

\* the children of the list container after displaySimilarSites
displayList_noClear(children, sites) ==
    children \o [i \in 1..Len(sites) |-> ListItem(sites[i])]

displayList(children, sites) ==
    [i \in 1..Len(sites) |-> ListItem(sites[i])]

\* the message element after displaySimilarSites
displayMessage(message, sites) ==
    IF Len(sites) = 0
    THEN [message EXCEPT !.textContent = NoSimilarSites]
    ELSE [message EXCEPT !.display = "none"]

NotAvailable == Str(<<"N", "/", "A">>)

\* main's writes to the current-site element when the URL is known
showCurrentSite_append(element, url) ==
    [textContent |-> Str(element.textContent.v \o url.v), title |-> url]

showCurrentSite(element, url) ==
    [textContent |-> url, title |-> url]


---------------------------------------------------------------------------
\* State

VARIABLES
    pc,                       \* where main is: idle, awaitTab, awaitSites, done, crashed
    fpc,                      \* where fetchSimilarSites is: idle, awaitFetch, awaitText,
                              \* awaitJson, resolved, rejected
    chromeEnv,                \* the host environment of the current activation
    tabPromise,               \* the promise of getCurrentTabUrl
    siteUrl,                  \* the argument of the current fetchSimilarSites call
    net,                      \* the outcome of the network call in flight (or the latest)
    sites,                    \* the value fetchSimilarSites resolved with (empty while
                              \* the call is pending)
    requests,                 \* network requests issued since the latest entry call
    ops,                      \* what the current fetchSimilarSites call did: text, json,
                              \* parse (the body reads, JSON.parse), message (the write
                              \* to the message element)
    console,                  \* console output since the latest entry call
    currentSiteElement,       \* [textContent, title]
    similarSitesListElement,  \* the children of the list container
    messageElement,           \* [textContent, display]
    loaderElement,            \* [display]
    lastSites,                \* history: the argument of the latest displaySimilarSites
                              \* call (none or one)
    prev                      \* history: the surface the previous activation ended with,
                              \* kept while the current one has the same inputs

vars == <<pc, fpc, chromeEnv, tabPromise, siteUrl, net, sites, requests, ops, console,
          currentSiteElement, similarSitesListElement, messageElement, loaderElement,
          lastSites, prev>>

dom == <<currentSiteElement, similarSitesListElement, messageElement, loaderElement>>
client == <<fpc, siteUrl, net, sites, ops>>

\* the presentation surface
Surface ==
    [currentSite |-> currentSiteElement, list |-> similarSitesListElement,
     message |-> messageElement, loader |-> loaderElement]

\* The document as loaded, before any script ran: no inline style, no list
\* item.
Init ==
    /\ pc = "idle"
    /\ fpc = "idle"
    /\ chromeEnv = [chrome |-> "extension", tabs |-> Undefined]
    /\ tabPromise = NoPromise
    /\ siteUrl = Undefined
    /\ net = Rejected
    /\ sites = <<>>
    /\ requests = 0
    /\ ops = {}
    /\ console = <<>>
    /\ currentSiteElement = [textContent |-> Str(<<>>), title |-> Str(<<>>)]
    /\ similarSitesListElement = <<>>
    /\ messageElement = [textContent |-> Message(""), display |-> ""]
    /\ loaderElement = [display |-> ""]
    /\ lastSites = <<>>
    /\ prev = <<>>

---------------------------------------------------------------------------
\* fetchSimilarSites

\* The call, up to its first await: the guard, then the one fetch().  `base`
\* is the number of requests already counted.  The surface of the previous
\* activation is kept only while the network outcome repeats too.
FetchCall(url, base) ==
    /\ siteUrl' = url
    /\ ops' = {}
    /\ IF skipsRequest(url)
       THEN /\ fpc' = "resolved"
            /\ sites' = <<>>
            /\ requests' = base
            /\ UNCHANGED <<net, prev>>
       ELSE /\ \E n \in NetOutcomes :
                 /\ net' = n
                 /\ prev' = IF n = net THEN prev ELSE <<>>
            /\ fpc' = "awaitFetch"
            /\ requests' = base + 1
            /\ sites' = <<>>

\* The end of a stretch of fetchSimilarSites: its promise settles.
Settle(o) ==
    /\ fpc' = IF o.rejected THEN "rejected" ELSE "resolved"
    /\ sites' = o.value
    /\ ops' = o.ops \cup (IF o.setMessage = <<>> THEN {} ELSE {"message"})
    /\ console' = console \o o.log
    /\ messageElement' = IF o.setMessage = <<>> THEN messageElement
                         ELSE [messageElement EXCEPT !.textContent = o.setMessage[1]]

\* fetch() settles: it rejects, or a response arrives and its body is read
FetchSettled ==
    /\ fpc = "awaitFetch"
    /\ IF net.k = "reject"
       THEN Settle(catchError(NetworkError, <<>>, ops))
       ELSE /\ fpc' = bodyRead(net)
            /\ UNCHANGED <<sites, ops, console, messageElement>>
    /\ UNCHANGED <<pc, chromeEnv, tabPromise, siteUrl, net, requests,
                   currentSiteElement, similarSitesListElement, loaderElement,
                   lastSites, prev>>

\* response.text() or response.json() settles; the call runs to its return
BodySettled ==
    /\ fpc \in {"awaitText", "awaitJson"}
    /\ IF fpc = "awaitText"
       THEN Settle(afterText(net, ops))
       ELSE Settle(afterBody(net, ops))
    /\ UNCHANGED <<pc, chromeEnv, tabPromise, siteUrl, net, requests,
                   currentSiteElement, similarSitesListElement, loaderElement,
                   lastSites, prev>>

\* fetchSimilarSites called on its own
CallFetch ==
    /\ pc = "idle"
    /\ fpc \in {"idle", "resolved", "rejected"}
    /\ \E url \in {Undefined, Null, Str(<<>>), Site1} : FetchCall(url, 0)
    /\ console' = <<>>
    /\ UNCHANGED <<pc, chromeEnv, tabPromise, dom, lastSites>>

---------------------------------------------------------------------------
\* displaySimilarSites

DisplaySimilarSites(list) ==
    /\ similarSitesListElement' = displayList(similarSitesListElement, list)
    /\ messageElement' = displayMessage(messageElement, list)
    /\ lastSites' = <<list>>

\* displaySimilarSites called on its own
Render ==
    /\ pc = "idle"
    /\ fpc = "idle"
    /\ \E list \in SeqsUpTo({Site1, Site2, Str(<<"x">>)}, MaxSites) :
           DisplaySimilarSites(list)
    /\ UNCHANGED <<pc, chromeEnv, tabPromise, client, requests, console,
                   currentSiteElement, loaderElement, prev>>

---------------------------------------------------------------------------
\* main

Terminated == pc \in {"done", "crashed"}

\* DOMContentLoaded (or a further call of main): the first writes, then the
\* executor of getCurrentTabUrl
MainStart ==
    /\ pc \in {"idle", "done", "crashed"}
    /\ fpc \in {"idle", "resolved", "rejected"}
    /\ \E e \in TabEnvs :
         /\ chromeEnv' = e
         /\ tabPromise' = getCurrentTabUrl(e.chrome)
         /\ prev' = IF Terminated /\ e = chromeEnv THEN <<Surface>> ELSE <<>>
         /\ console' = IF e.chrome = "noTabs"
                       THEN <<"error: chrome.tabs.query is not available">>
                       ELSE <<>>
    /\ loaderElement' = [display |-> "block"]
    /\ messageElement' = [messageElement EXCEPT !.textContent = FetchingUrl]
    /\ similarSitesListElement' = <<>>
    /\ requests' = 0
    /\ fpc' = "idle"
    /\ pc' = "awaitTab"
    /\ UNCHANGED <<siteUrl, net, sites, ops, currentSiteElement, lastSites>>

\* the host calls back with the tabs it found
TabsCallback ==
    /\ pc = "awaitTab"
    /\ tabPromise.state = "pending"
    /\ tabPromise' = tabsCallback(chromeEnv.tabs)
    /\ console' = IF tabPromise'.value = Null
                  THEN console \o <<"error: Could not get current tab URL">>
                  ELSE console
    /\ UNCHANGED <<pc, chromeEnv, client, requests, dom, lastSites, prev>>

\* main resumes after `await getCurrentTabUrl()`
MainAfterTab ==
    /\ pc = "awaitTab"
    /\ tabPromise.state \in {"resolved", "rejected"}
    /\ IF tabPromise.state = "rejected"
       THEN /\ pc' = "crashed"
            /\ UNCHANGED <<client, requests, dom, prev>>
       ELSE IF Truthy(tabPromise.value)
       THEN /\ currentSiteElement' = showCurrentSite(currentSiteElement, tabPromise.value)
            /\ messageElement' = [messageElement EXCEPT !.textContent = FindingSites]
            /\ FetchCall(tabPromise.value, requests)
            /\ pc' = "awaitSites"
            /\ UNCHANGED <<similarSitesListElement, loaderElement>>
       ELSE /\ loaderElement' = [display |-> "none"]
            /\ currentSiteElement' = [currentSiteElement EXCEPT !.textContent = NotAvailable]
            /\ messageElement' = [messageElement EXCEPT !.textContent = CouldNotDetermine]
            /\ pc' = "done"
            /\ UNCHANGED <<client, requests, similarSitesListElement, prev>>
    /\ UNCHANGED <<chromeEnv, tabPromise, console, lastSites>>

\* main resumes after `await fetchSimilarSites(url)`
MainAfterSites ==
    /\ pc = "awaitSites"
    /\ fpc \in {"resolved", "rejected"}
    /\ loaderElement' = [display |-> "none"]
    /\ IF fpc = "resolved"
       THEN DisplaySimilarSites(sites)
       ELSE /\ messageElement' = [messageElement EXCEPT !.textContent = FailedToLoad]
            /\ UNCHANGED <<similarSitesListElement, lastSites>>
    /\ pc' = "done"
    /\ UNCHANGED <<chromeEnv, tabPromise, client, requests, console,
                   currentSiteElement, prev>>

---------------------------------------------------------------------------
\* Specifications

\* the popup: activations of main
Next ==
    \/ MainStart
    \/ TabsCallback
    \/ MainAfterTab
    \/ FetchSettled
    \/ BodySettled
    \/ MainAfterSites

Spec == Init /\ [][Next]_vars

\* the Similarity Client called on its own
NextClient ==
    \/ CallFetch
    \/ FetchSettled
    \/ BodySettled

SpecClient == Init /\ [][NextClient]_vars

\* the Result Presenter called on its own
NextRender == Render

SpecRender == Init /\ [][NextRender]_vars


---------------------------------------------------------------------------
\* Vocabulary of the properties

IsObj(x) == x.t = "object"
Has(x, name) == IsObj(x) /\ name \in DOMAIN x.v
NonEmptyArray(x) == x.t = "array" /\ Len(x.v) > 0

\* the first candidate, and the first part of the first candidate
HasFirstCandidate(x) == Has(x, "candidates") /\ NonEmptyArray(x.v["candidates"])
FirstCandidate(x) == x.v["candidates"].v[1]
HasFirstPart(x) ==
    /\ HasFirstCandidate(x)
    /\ Has(FirstCandidate(x), "content")
    /\ Has(FirstCandidate(x).v["content"], "parts")
    /\ NonEmptyArray(FirstCandidate(x).v["content"].v["parts"])
FirstPart(x) == FirstCandidate(x).v["content"].v["parts"].v[1]

NonEmptyText(p) == Has(p, "text") /\ p.v["text"].t = "text"

\* the first candidate's first part carries a non-empty text
FirstPartHasText(x) == HasFirstPart(x) /\ NonEmptyText(FirstPart(x))

\* some part of some candidate carries a non-empty text
SomePartHasText(x) ==
    /\ Has(x, "candidates")
    /\ x.v["candidates"].t = "array"
    /\ \E i \in DOMAIN x.v["candidates"].v :
         LET c == x.v["candidates"].v[i]
         IN  /\ Has(c, "content")
             /\ Has(c.v["content"], "parts")
             /\ c.v["content"].v["parts"].t = "array"
             /\ \E j \in DOMAIN c.v["content"].v["parts"].v :
                    NonEmptyText(c.v["content"].v["parts"].v[j])

\* the body, its first candidate or its first part is null
NullOnPath(x) ==
    \/ x.t = "null"
    \/ HasFirstCandidate(x) /\ FirstCandidate(x).t = "null"
    \/ HasFirstPart(x) /\ FirstPart(x).t = "null"

SuccessStatus(n) == n.k = "response" /\ n.status >= 200 /\ n.status <= 299
\* a success response whose body decodes as JSON
SuccessJson(n) == SuccessStatus(n) /\ n.body.kind = "json"
\* non-success status or network-level failure
TransportFailure(n) == n.k = "reject" \/ ~SuccessStatus(n)

\* the array under similarWebsites of the decoded inner text, when the reply
\* is well formed all the way down
WellFormedReply(n) ==
    /\ SuccessJson(n)
    /\ FirstPartHasText(n.body.value)
    /\ Has(FirstPart(n.body.value).v["text"].v[1], "similarWebsites")
    /\ FirstPart(n.body.value).v["text"].v[1].v["similarWebsites"].t = "array"
SimilarWebsites(n) == FirstPart(n.body.value).v["text"].v[1].v["similarWebsites"].v

\* a string, not blank, starting with http:// or https://
PassesCheck(e) ==
    /\ e.t = "string"
    /\ \E i \in DOMAIN e.v : e.v[i] \notin {" ", "\t", "\n"}
    /\ \/ Len(e.v) >= 7 /\ [i \in 1..7 |-> e.v[i]] = HTTP
       \/ Len(e.v) >= 8 /\ [i \in 1..8 |-> e.v[i]] = HTTPS

\* s is the subsequence of a made of the entries that pass, in a's order
IsPassingSubsequence(s, a) ==
    LET idx == { i \in DOMAIN a : PassesCheck(a[i]) }
        nth(k) == CHOOSE i \in idx : Cardinality({ j \in idx : j < i }) = k - 1
    IN  /\ Len(s) = Cardinality(idx)
        /\ \A k \in DOMAIN s : s[k] = a[nth(k)]

\* a call of fetchSimilarSites with a non-empty url has returned
Returned == fpc = "resolved" /\ Truthy(siteUrl)

EmptyOrAbsent(u) == u.t \in {"undefined", "null"} \/ (u.t = "string" /\ Len(u.v) = 0)

IsErrorMessage(m) == m.text = "Error: " /\ Len(m.error) = 1


---------------------------------------------------------------------------
\* Properties

\* C1: fetchSimilarSites never rejects, and for a non-empty url it resolves
\* to the empty sequence on every outcome of the network call other than a
\* reply that is well formed all the way down to the similarWebsites array
\* (fetch rejected, non-success status, body not JSON, wrong envelope shape,
\* inner text not JSON, no similarWebsites array).
C1_NeverRaises ==
    /\ fpc # "rejected"
    /\ (Returned /\ ~WellFormedReply(net)) => sites = <<>>

\* an inner text that is not JSON was parsed and the call returned []
C1_Witness ==
    /\ Returned
    /\ SuccessJson(net)
    /\ FirstPartHasText(net.body.value)
    /\ FirstPart(net.body.value).v["text"] = JsonText(SyntaxError)
    /\ "parse" \in ops
    /\ sites = <<>>

C3_RequestCount ==
    requests = IF fpc = "idle" \/ EmptyOrAbsent(siteUrl) THEN 0 ELSE 1

\* the call with the empty string returned without a request
C3_Witness ==
    /\ fpc = "resolved"
    /\ siteUrl = Str(<<>>)
    /\ sites = <<>>
    /\ requests = 0

C5_OnlyTransportDistinct ==
    (pc = "done" /\ fpc = "resolved")
        => /\ TransportFailure(net) => messageElement.textContent # NoSimilarSites
           /\ (~TransportFailure(net) /\ sites = <<>>)
                  => messageElement.textContent = NoSimilarSites

\* the first tab of the query's result carries a URL
FirstTabHasUrl(e) ==
    /\ e.chrome = "extension"
    /\ NonEmptyArray(e.tabs)
    /\ Has(e.tabs.v[1], "url")
    /\ Truthy(e.tabs.v[1].v["url"])

\* C6: getCurrentTabUrl yields the first tab's URL when there is one and
\* absent in every other case, a missing tab-query capability included; then
\* main ends on the "could not determine" message without a request.
C6_AbsentWithoutCapability ==
    /\ tabPromise.state # "rejected"
    /\ tabPromise.state = "resolved"
          => tabPromise.value = IF FirstTabHasUrl(chromeEnv)
                                THEN chromeEnv.tabs.v[1].v["url"] ELSE Null
    /\ (Terminated /\ ~FirstTabHasUrl(chromeEnv))
          => /\ pc = "done"
             /\ messageElement.textContent = CouldNotDetermine
             /\ requests = 0

\* C7: after any sequence of render calls the list container holds one
\* entry per URL of the latest call, in its order, each with link target,
\* label and tooltip equal to the URL and opening in a new browsing context;
\* after an empty input it has no child and the message is the fixed one.
C7_LatestRenderOnly ==
    lastSites # <<>> =>
        LET input == lastSites[1]
        IN  /\ Len(similarSitesListElement) = Len(input)
            /\ \A i \in DOMAIN input :
                 /\ similarSitesListElement[i].href = input[i]
                 /\ similarSitesListElement[i].textContent = input[i]
                 /\ similarSitesListElement[i].title = input[i]
                 /\ similarSitesListElement[i].target = "_blank"
            /\ input = <<>> => messageElement.textContent = NoSimilarSites

\* a list with a duplicate, out of order, rendered after an earlier call
\* with the empty list
C7_Witness ==
    /\ lastSites = << <<Site2, Site1, Site2>> >>
    /\ Len(similarSitesListElement) = 3
    /\ messageElement.textContent = NoSimilarSites

\* C8: an activation with the same tab environment and the same network
\* outcome as the one before it ends with the same presentation surface.
C8_Idempotent ==
    (Terminated /\ prev # <<>>) => Surface = prev[1]

\* the second of two equal activations that rendered results
C8_Witness ==
    /\ pc = "done"
    /\ prev # <<>>
    /\ similarSitesListElement # <<>>
    /\ currentSiteElement.textContent = Site1

\* C9: every activation that ends, ends handled: main returned (no unhandled
\* rejection), the loader is hidden, and a non-empty list is rendered or a
\* message is set.
C9_NothingFatal ==
    Terminated =>
        /\ pc = "done"
        /\ loaderElement.display = "none"
        /\ \/ similarSitesListElement # <<>>
           \/ messageElement.textContent \in {NoSimilarSites, CouldNotDetermine, FailedToLoad}
           \/ IsErrorMessage(messageElement.textContent)

\* C10 as claimed: inner JSON is parsed whenever some part of some
\* candidate carries a non-empty text, also when that part is not the first
\* part of the first candidate.
C10_AnyCandidate ==
    (Returned /\ SuccessJson(net) /\ SomePartHasText(net.body.value))
        => "parse" \in ops

\* C10 amended: inner JSON is parsed exactly when the FIRST candidate's
\* FIRST part carries a non-empty text; otherwise the result is empty, and
\* the error message is set exactly when the body, the first candidate or
\* the first part is null (the property read raises into the outer catch).
C10_FirstCandidateOnly ==
    (Returned /\ SuccessJson(net))
        => IF FirstPartHasText(net.body.value)
           THEN "parse" \in ops
           ELSE /\ sites = <<>>
                /\ "parse" \notin ops
                /\ "message" \in ops <=> NullOnPath(net.body.value)

\* the valid text sits in the second candidate only: nothing is parsed
C10_Witness ==
    /\ Returned
    /\ SuccessJson(net)
    /\ SomePartHasText(net.body.value)
    /\ ~FirstPartHasText(net.body.value)
    /\ ops = {"json"}
    /\ sites = <<>>


====
